---------------------------- MODULE Spec2Model ----------------------------
(***************************************************************************)
(* A model of src/src/bbr.rs: the paginated BBR record fetch               *)
(* (fetch_bbr_buildings), the retry loop of the DHM raster fetch           *)
(* (fetch_dhm_elevation) and the reconciliation pass (enrich_with_bbr).    *)
(*                                                                         *)
(* Conventions.  Option<T> is None or a value.  Text that the code parses  *)
(* is a sequence of one-character strings.  Geodetic coordinates are       *)
(* integers in units of 1e-5 degree, and f64 arithmetic is exact rational  *)
(* arithmetic (fractions are compared by cross-multiplication).            *)
(***************************************************************************)
EXTENDS Integers, Sequences, FiniteSets, TLC

\* Option<T>: None, or Some(x)
None == <<>>
Some(x) == <<x>>
IsSome(o) == o # <<>>
Unwrap(o) == o[1]

VARIABLES
    \* ---- fetch_bbr_buildings --------------------------------------------
    f_pc,           \* "loop": about to run a loop iteration, "done": returned
    dataset,        \* the server's data (environment, fixed for a run)
    page,           \* `page`
    cursor,         \* `cursor`
    all_buildings,  \* `all_buildings`
    f_result,       \* the value returned, None while running
    f_warned,       \* the pagination-limit warning has been printed
    f_requests,     \* number of POST requests sent
    f_query,        \* the query of the latest request
    f_resp,         \* the server's answer to the latest request
    f_all_more,     \* every answer so far was a parsed page with
                    \* hasNextPage = true and an endCursor
    \* ---- fetch_dhm_elevation: the retry block ----------------------------
    d_pc,           \* "attempting", "received" (left 'retry with a body),
                    \* "decoding" (bytes given to the decoder), "decoded", "done"
    round,          \* `round` of the next attempt
    attempt,        \* `attempt` of the next attempt
    last_err,       \* `last_err`
    d_requests,     \* number of GET requests sent
    sleeps,         \* the durations slept so far, in seconds, in order
    d_outcome,      \* what the latest request ran into (environment)
    d_received,     \* `(content_type, bytes)` once received
    d_result,       \* the value returned (or a panic), None while running
    \* ---- enrich_with_bbr -------------------------------------------------
    e_pc,           \* "start", "loop" (the second for loop), "done"
    bbox,           \* `bbox`
    fetched,        \* what fetch_bbr_buildings returns to this call
    elements,       \* `elements`
    elements0,      \* `elements` as passed in
    bbr_buildings,  \* `bbr_buildings`
    extent,         \* global_min_x, global_max_x, global_min_z, global_max_z
    idx,            \* position of the second for loop in `elements`
    matched,        \* `matched`
    enriched,       \* `enriched`
    best,           \* per element visited: was it eligible, and its `best_bbr`
    e_result,       \* the value returned, None while running
    \* ---- fetch_dhm_elevation: from the decoded raster to the result -------
    g_pc,           \* "resample", "resampled", "smoothed", "done"
    tiff,           \* tiff_width, tiff_height and raw_heights
    grid_width,     \* `grid_width`
    grid_height,    \* `grid_height`
    height_grid,    \* `height_grid`, rows of elevations in quarter metres
    scale,          \* `scale`, <<numerator, denominator>>
    ground_level,   \* `ground_level`
    g_result        \* the value returned (or a panic), None while running

f_vars == <<f_pc, dataset, page, cursor, all_buildings, f_result, f_warned,
            f_requests, f_query, f_resp, f_all_more>>

d_vars == <<d_pc, round, attempt, last_err, d_requests, sleeps, d_outcome,
            d_received, d_result>>

e_vars == <<e_pc, bbox, fetched, elements, elements0, bbr_buildings, extent,
            idx, matched, enriched, best, e_result>>

g_vars == <<g_pc, tiff, grid_width, grid_height, height_grid, scale,
            ground_level, g_result>>

vars == <<f_vars, d_vars, e_vars, g_vars>>

----------------------------------------------------------------------------
(* Text helpers *)

Digit == {"0", "1", "2", "3", "4", "5", "6", "7", "8", "9"}

DigitVal(c) ==
    CASE c = "0" -> 0 [] c = "1" -> 1 [] c = "2" -> 2 [] c = "3" -> 3
      [] c = "4" -> 4 [] c = "5" -> 5 [] c = "6" -> 6 [] c = "7" -> 7
      [] c = "8" -> 8 [] c = "9" -> 9

RECURSIVE DigitsVal(_)
DigitsVal(s) ==
    IF s = <<>> THEN 0
    ELSE 10 * DigitsVal(SubSeq(s, 1, Len(s) - 1)) + DigitVal(s[Len(s)])

AllDigits(s) == s # <<>> /\ \A i \in 1..Len(s) : s[i] \in Digit

IsWhitespace(c) == c \in {" ", "\t", "\n"}

RECURSIVE TrimStart(_)
TrimStart(s) ==
    IF s # <<>> /\ IsWhitespace(Head(s)) THEN TrimStart(Tail(s)) ELSE s

RECURSIVE TrimEnd(_)
TrimEnd(s) ==
    IF s # <<>> /\ IsWhitespace(s[Len(s)])
    THEN TrimEnd(SubSeq(s, 1, Len(s) - 1)) ELSE s

Trim(s) == TrimEnd(TrimStart(s))

\* str::strip_prefix: the rest after the prefix, or None
StripPrefix(s, p) ==
    IF Len(s) >= Len(p) /\ SubSeq(s, 1, Len(p)) = p
    THEN Some(SubSeq(s, Len(p) + 1, Len(s))) ELSE None

\* str::strip_suffix
StripSuffix(s, p) ==
    IF Len(s) >= Len(p) /\ SubSeq(s, Len(s) - Len(p) + 1, Len(s)) = p
    THEN Some(SubSeq(s, 1, Len(s) - Len(p))) ELSE None

\* str::split_whitespace: the maximal runs of non-whitespace characters
RECURSIVE SplitWhitespace(_, _, _)
SplitWhitespace(s, cur, acc) ==
    IF s = <<>> THEN (IF cur = <<>> THEN acc ELSE Append(acc, cur))
    ELSE IF IsWhitespace(Head(s))
         THEN SplitWhitespace(Tail(s), <<>>,
                              IF cur = <<>> THEN acc ELSE Append(acc, cur))
         ELSE SplitWhitespace(Tail(s), Append(cur, Head(s)), acc)

\* str::parse::<f64> on the tokens of the model: an unsigned decimal integer
ParseF64(tok) == IF AllDigits(tok) THEN Some(DigitsVal(tok)) ELSE None

\* str::parse::<i32>: an optional sign and decimal digits, no whitespace
ParseI32(s) ==
    IF AllDigits(s) THEN Some(DigitsVal(s))
    ELSE IF s # <<>> /\ Head(s) = "-" /\ AllDigits(Tail(s))
         THEN Some(0 - DigitsVal(Tail(s)))
    ELSE IF s # <<>> /\ Head(s) = "+" /\ AllDigits(Tail(s))
         THEN Some(DigitsVal(Tail(s)))
    ELSE None

----------------------------------------------------------------------------
(* Projection, tabulated on the projected points the model's server uses.  *)
(* Values are utm32n_to_wgs84 of the source evaluated at these points, in  *)
(* 1e-5 degree.                                                            *)

UtmSamples == { <<530500, 6147880>>, <<724500, 6176000>>, <<724600, 6176100>> }

utm32n_to_wgs84(easting, northing) ==
    CASE <<easting, northing>> = <<530500, 6147880>> -> <<5547611, 948253>>
      [] <<easting, northing>> = <<724500, 6176000>> -> <<5567779, 1257081>>
      [] <<easting, northing>> = <<724600, 6176100>> -> <<5567864, 1257248>>
      [] OTHER -> <<0, 0>>

\* parse_point_coordinate: Some(<<lat, lon>>) or None
parse_point_coordinate(coord_str) ==
    LET s1 == StripPrefix(coord_str, <<"P", "O", "I", "N", "T">>)
        s2 == IF IsSome(s1) THEN StripPrefix(Trim(Unwrap(s1)), <<"(">>) ELSE None
        inner == IF IsSome(s2) THEN StripSuffix(Unwrap(s2), <<")">>) ELSE None
    IN  IF ~IsSome(inner) THEN None
        ELSE LET parts == SplitWhitespace(Trim(Unwrap(inner)), <<>>, <<>>)
             IN  IF Len(parts) # 2 THEN None
                 ELSE LET easting == ParseF64(parts[1])
                          northing == ParseF64(parts[2])
                      IN  IF ~IsSome(easting) \/ ~IsSome(northing) THEN None
                          ELSE Some(utm32n_to_wgs84(Unwrap(easting), Unwrap(northing)))

----------------------------------------------------------------------------
(* JSON values of a response body, and their deserialisation (serde)       *)

JNull == [t |-> "null"]
JStr(s) == [t |-> "str", s |-> s]
JNum(n) == [t |-> "num", n |-> n]
JKoordinat(wkt) == [t |-> "obj", wkt |-> wkt]

\* Option<String>: null or a string
OptStringOk(v) == v.t \in {"null", "str"}
OptString(v) == IF v.t = "str" THEN Some(v.s) ELSE None

\* Option<i32>: null or an integer
OptI32Ok(v) == v.t \in {"null", "num"}
OptI32(v) == IF v.t = "num" THEN Some(v.n) ELSE None

\* GraphQlBygning: every field must have the declared type
BygningOk(n) ==
    /\ OptStringOk(n.anvendelse)
    /\ OptStringOk(n.ydervaegs_materiale)
    /\ OptStringOk(n.tagdaekning)
    /\ OptI32Ok(n.antal_etager)
    /\ n.koordinat.t \in {"null", "obj"}
    /\ (n.koordinat.t = "obj" => OptStringOk(n.koordinat.wkt))

\* A response body: not JSON at all, or a document with the optional
\* members `errors` (a list of messages) and `data` (with the optional
\* member BBR_Bygning: nodes and pageInfo).
NotJson == [json |-> FALSE]
JsonDoc(errors, data) == [json |-> TRUE, errors |-> errors, data |-> data]
JData(bbr_bygning) == [bbr_bygning |-> bbr_bygning]
JResult(nodes, has_next_page, end_cursor) ==
    [nodes |-> nodes,
     page_info |-> [has_next_page |-> has_next_page, end_cursor |-> end_cursor]]

\* resp.json::<GraphQlResponse>() succeeds
JsonOk(body) ==
    /\ body.json
    /\ (IsSome(body.data) /\ IsSome(Unwrap(body.data).bbr_bygning)
          => LET nodes == Unwrap(Unwrap(body.data).bbr_bygning).nodes
             IN  \A i \in 1..Len(nodes) : BygningOk(nodes[i]))

----------------------------------------------------------------------------
(* The BBR GraphQL server (environment)                                    *)

RECURSIVE Digits(_)
Digits(n) ==
    LET d == <<"0", "1", "2", "3", "4", "5", "6", "7", "8", "9">>[(n % 10) + 1]
    IN  IF n < 10 THEN <<d>> ELSE Append(Digits(n \div 10), d)

POINT == <<"P", "O", "I", "N", "T">>

\* "POINT (e n)", the form the server documents
PointWkt(e, n) == POINT \o <<" ", "(">> \o Digits(e) \o <<" ">> \o Digits(n) \o <<")">>

\* Locations that are not a well-formed point: one component, three
\* components, a component that is no number, no POINT prefix
BadWkts ==
    << POINT \o <<" ", "(">> \o Digits(530500) \o <<")">>,
      POINT \o <<" ", "(">> \o Digits(530500) \o <<" ">> \o Digits(6147880)
            \o <<" ">> \o Digits(7) \o <<")">>,
      POINT \o <<" ", "(">> \o Digits(530500) \o <<" ", "x", ")">>,
      <<"(">> \o Digits(530500) \o <<" ">> \o Digits(6147880) \o <<")">> >>

\* The malformed locations the server holds for page p
BadWkt(p, k) == BadWkts[((p + k) % Len(BadWkts)) + 1]

SamplePoint(p) ==
    CASE p % 3 = 1 -> <<530500, 6147880>>
      [] p % 3 = 2 -> <<724500, 6176000>>
      [] OTHER     -> <<724600, 6176100>>

\* The node with a well-formed location that the server holds for page p;
\* its floor count is the page number
GoodNode(p) ==
    [anvendelse |-> JStr(Digits(120)),
     ydervaegs_materiale |-> JStr(Digits(1)),
     tagdaekning |-> JStr(Digits(5)),
     antal_etager |-> JNum(p),
     koordinat |-> JKoordinat(JStr(PointWkt(SamplePoint(p)[1], SamplePoint(p)[2])))]

DataSets == {"plain", "mixed", "typed", "empty"}

\* The nodes of the p-th page of a data set
ServerNodes(ds, p) ==
    CASE ds = "plain" -> <<GoodNode(p)>>
      [] ds = "mixed" ->
            << [GoodNode(p) EXCEPT !.koordinat = JNull],
               GoodNode(p),
               [GoodNode(p) EXCEPT
                   !.koordinat = JKoordinat(JStr(BadWkt(p, 0))),
                   !.tagdaekning = JStr(<<"x">>)],
               [GoodNode(p) EXCEPT !.koordinat = JKoordinat(JStr(BadWkt(p, 2)))],
               [GoodNode(p) EXCEPT !.koordinat = JKoordinat(JNull)] >>
      [] ds = "typed" ->
            IF p = 2 THEN <<GoodNode(p),
                             [GoodNode(p) EXCEPT !.antal_etager = JStr(<<"2", ".", "5">>)]>>
            ELSE <<[GoodNode(p) EXCEPT !.anvendelse = JNull,
                                       !.ydervaegs_materiale = JStr(<<"1", " ">>)]>>
      [] OTHER -> <<>>

Cursors == {"c1", "c2"}
Statuses == {200, 404, 500}

\* What the server may answer to the p-th request
Responses(ds, p) ==
    {[sent |-> FALSE]}
      \cup {[sent |-> TRUE, status |-> st, body |-> NotJson] : st \in Statuses}
      \cup {[sent |-> TRUE, status |-> st, body |-> JsonDoc(errs, data)] :
              st \in {200},
              errs \in {None, Some(<<>>), Some(<<"m1", "m2">>)},
              data \in {None, Some(JData(None))}
                 \cup {Some(JData(Some(JResult(ServerNodes(ds, p), hn, ec)))) :
                         hn \in BOOLEAN,
                         ec \in {None} \cup {Some(c) : c \in Cursors}}}

----------------------------------------------------------------------------
(* fetch_bbr_buildings                                                     *)

PageLimit == 100

\* build_bbr_query: the parts of the query that vary between requests
build_bbr_query(c) ==
    [first |-> 500, after |-> IF IsSome(c) THEN Some(Unwrap(c)) ELSE None]

\* status.is_success()
IsSuccess(status) == status >= 200 /\ status <= 299

PageError_DataFirst(resp) ==
    IF ~resp.sent THEN Some("Send")
    ELSE IF ~IsSuccess(resp.status) THEN Some("Status")
    ELSE IF ~JsonOk(resp.body) THEN Some("Json")
    ELSE IF ~IsSome(resp.body.data) \/ ~IsSome(Unwrap(resp.body.data).bbr_bygning)
         THEN (IF IsSome(resp.body.errors) THEN Some("GraphQlErrors")
               ELSE Some("NoData"))
    ELSE None

\* The error a response makes the loop return, or None (lines 300-321)
PageError(resp) ==
    IF ~resp.sent THEN Some("Send")
    ELSE IF ~IsSuccess(resp.status) THEN Some("Status")
    ELSE IF ~JsonOk(resp.body) THEN Some("Json")
    ELSE IF IsSome(resp.body.errors) THEN Some("GraphQlErrors")
    ELSE IF ~IsSome(resp.body.data) \/ ~IsSome(Unwrap(resp.body.data).bbr_bygning)
         THEN Some("NoData")
    ELSE None

\* The BbrBuilding pushed for one node, or None when the node is skipped
ToBuilding(bygning) ==
    LET wkt == IF bygning.koordinat.t = "obj"
               THEN OptString(bygning.koordinat.wkt) ELSE None
        coords == IF IsSome(wkt) THEN parse_point_coordinate(Unwrap(wkt)) ELSE None
        code(v) == IF IsSome(OptString(v)) THEN ParseI32(Unwrap(OptString(v)))
                   ELSE None
    IN  IF ~IsSome(coords) THEN None
        ELSE Some([lat |-> Unwrap(coords)[1],
                   lon |-> Unwrap(coords)[2],
                   antal_etager |-> OptI32(bygning.antal_etager),
                   ydervaegs_materiale |-> code(bygning.ydervaegs_materiale),
                   tagdaekning |-> code(bygning.tagdaekning),
                   anvendelse |-> code(bygning.anvendelse)])

RECURSIVE PushBuildings_Break(_, _)
PushBuildings_Break(acc, nodes) ==
    IF nodes = <<>> \/ ~IsSome(ToBuilding(Head(nodes))) THEN acc
    ELSE PushBuildings_Break(Append(acc, Unwrap(ToBuilding(Head(nodes)))), Tail(nodes))

\* for bygning in &result.nodes { ... all_buildings.push(..) }
RECURSIVE PushBuildings(_, _)
PushBuildings(acc, nodes) ==
    IF nodes = <<>> THEN acc
    ELSE PushBuildings(IF IsSome(ToBuilding(Head(nodes)))
                       THEN Append(acc, Unwrap(ToBuilding(Head(nodes))))
                       ELSE acc,
                       Tail(nodes))

PageLimitReached_Gt(p) == p > PageLimit

\* if page >= 100
PageLimitReached(p) == p >= PageLimit

\* The end of a loop iteration (lines 346-362): "next" to loop again,
\* "end" for the first two breaks, "limit" for the break with the warning
AfterPage(page_info, p) ==
    IF ~page_info.has_next_page THEN "end"
    ELSE IF ~IsSome(page_info.end_cursor) THEN "end"
    ELSE IF PageLimitReached(p) THEN "limit"
    ELSE "next"

CursorAfterPage_Stale(page_info, c) == c

\* `cursor` at the end of a loop iteration
CursorAfterPage(page_info, c) ==
    IF ~page_info.has_next_page THEN c ELSE page_info.end_cursor

\* The server goes on: a parsed page with hasNextPage = true and a cursor
MorePages(resp) ==
    /\ resp.sent /\ resp.status = 200 /\ JsonOk(resp.body)
    /\ resp.body.errors = None
    /\ IsSome(resp.body.data) /\ IsSome(Unwrap(resp.body.data).bbr_bygning)
    /\ LET pi == Unwrap(Unwrap(resp.body.data).bbr_bygning).page_info
       IN  pi.has_next_page /\ IsSome(pi.end_cursor)

\* One iteration of the loop: one request and the handling of its answer
FetchPage ==
    /\ f_pc = "loop"
    /\ \E resp \in Responses(dataset, page + 1) :
         LET err == PageError(resp)
             result == Unwrap(Unwrap(resp.body.data).bbr_bygning)
             after == AfterPage(result.page_info, page + 1)
         IN  /\ page' = page + 1
             /\ f_query' = Some(build_bbr_query(cursor))
             /\ f_requests' = f_requests + 1
             /\ f_resp' = Some(resp)
             /\ f_all_more' = (f_all_more /\ MorePages(resp))
             /\ IF IsSome(err)
                THEN /\ f_result' = Some([tag |-> "Err", kind |-> Unwrap(err)])
                     /\ f_pc' = "done"
                     /\ UNCHANGED <<cursor, all_buildings, f_warned>>
                ELSE /\ all_buildings' = PushBuildings(all_buildings, result.nodes)
                     /\ cursor' = CursorAfterPage(result.page_info, cursor)
                     /\ f_warned' = (after = "limit")
                     /\ f_pc' = IF after = "next" THEN "loop" ELSE "done"
                     /\ f_result' = IF after = "next" THEN None
                                    ELSE Some([tag |-> "Ok",
                                               buildings |-> all_buildings'])
    /\ UNCHANGED dataset

----------------------------------------------------------------------------
(* fetch_dhm_elevation: the retry block (lines 730-807)                    *)

quick_retries == 3
max_rounds == 5
RoundWait == 60
ErrBodyLimit == 500

\* A response body as text: its length in bytes and whether byte offset
\* min(len, 500) falls on a character boundary of the UTF-8 text (it always
\* does when len <= 500; in a longer text it need not)
Bodies ==
    { [id |-> "b0", len |-> 0, cut_ok |-> TRUE],
      [id |-> "b1", len |-> 120, cut_ok |-> TRUE],
      [id |-> "b2", len |-> 800, cut_ok |-> TRUE],
      [id |-> "b3", len |-> 800, cut_ok |-> FALSE] }

DhmStatuses == {200, 404, 429, 500, 503}

\* Values of the content-type header ("" when there is none)
ContentTypes ==
    { <<>>,
      <<"i", "m", "a", "g", "e", "/", "t", "i", "f", "f">>,
      <<"t", "e", "x", "t", "/", "x", "m", "l">>,
      <<"a", "p", "p", "l", "i", "c", "a", "t", "i", "o", "n", "/",
        "v", "n", "d", ".", "o", "g", "c", ".", "s", "e", "_", "x", "m", "l">> }

\* Bodies of a response with a success status: length in bytes, first
\* byte, and whether the bytes are a TIFF file
Payloads ==
    { [id |-> "tiff", len |-> 4096, first |-> "I", is_tiff |-> TRUE],
      [id |-> "report", len |-> 300, first |-> "<", is_tiff |-> FALSE],
      [id |-> "long report", len |-> 800, first |-> "<", is_tiff |-> FALSE],
      [id |-> "<e12/>", len |-> 6, first |-> "<", is_tiff |-> FALSE],
      [id |-> "<ex/>", len |-> 5, first |-> "<", is_tiff |-> FALSE],
      [id |-> "<e/>", len |-> 4, first |-> "<", is_tiff |-> FALSE],
      [id |-> "text", len |-> 40, first |-> "E", is_tiff |-> FALSE],
      [id |-> "", len |-> 0, first |-> "", is_tiff |-> FALSE] }

\* What one GET request may run into
Outcomes ==
    {[kind |-> "send_err", e |-> e] : e \in {"timeout", "connect"}}
      \cup {[kind |-> "status", status |-> st, body |-> b] :
              st \in DhmStatuses \ {200}, b \in Bodies}
      \cup {[kind |-> "bytes_err", status |-> 200, e |-> e] : e \in {"reset", "eof"}}
      \cup {[kind |-> "bytes", status |-> 200, ct |-> ct, bytes |-> b] :
              ct \in ContentTypes, b \in Payloads}

Min(a, b) == IF a <= b THEN a ELSE b

RECURSIVE Pow2(_)
Pow2(n) == IF n = 0 THEN 1 ELSE 2 * Pow2(n - 1)

\* status.is_server_error()
IsServerError(status) == status >= 500 /\ status <= 599

\* &body[..body.len().min(500)]: the slice, or a panic when the end is not
\* a character boundary
SliceBody(body) ==
    IF ~body.cut_ok THEN None
    ELSE Some([id |-> body.id, len |-> Min(body.len, ErrBodyLimit)])

SleepsBefore_Pow(r, a) ==
    (IF r > 1 /\ a = 1 THEN <<RoundWait>> ELSE <<>>)
      \o (IF a > 1 THEN <<Pow2(a)>> ELSE <<>>)

\* The sleeps that precede the request of (round, attempt)
SleepsBefore(r, a) ==
    (IF r > 1 /\ a = 1 THEN <<RoundWait>> ELSE <<>>)
      \o (IF a > 1 THEN <<Pow2(a - 1)>> ELSE <<>>)

\* The status is one the loop retries
IsTransientStatus(status) == IsServerError(status) \/ status = 429

\* What the body of the inner loop does with an outcome:
\* "continue", "return" (an error), "panic" or "break" (with the body)
Handle(o) ==
    CASE o.kind = "send_err" -> "continue"
      [] o.kind = "status" ->
            IF ~IsSome(SliceBody(o.body)) THEN "panic"
            ELSE IF IsTransientStatus(o.status) THEN "continue"
            ELSE "return"
      [] o.kind = "bytes_err" -> "continue"
      [] OTHER -> "break"

\* The message an outcome is formatted into
Message(o) ==
    CASE o.kind = "send_err" -> [fmt |-> "Request failed", e |-> o.e]
      [] o.kind = "status" ->
            [fmt |-> "DHM WCS returned status", status |-> o.status,
             body |-> Unwrap(SliceBody(o.body))]
      [] OTHER -> [fmt |-> "Failed to read response body", e |-> o.e]

\* The loops are over after the attempt of (r, a)
LastAttempt(r, a) == r = max_rounds /\ a = quick_retries

\* One pass through the body of the inner loop: the sleeps due, one request,
\* the handling of its outcome and, after the last attempt, the final return
DhmAttempt ==
    /\ d_pc = "attempting"
    /\ \E o \in Outcomes :
         LET h == Handle(o)
         IN  /\ sleeps' = sleeps \o SleepsBefore(round, attempt)
             /\ d_requests' = d_requests + 1
             /\ d_outcome' = Some(o)
             /\ last_err' = IF h = "continue" THEN Some(Message(o)) ELSE last_err
             /\ d_received' = IF h = "break" THEN Some(<<o.ct, o.bytes>>) ELSE None
             /\ CASE h = "panic" ->
                       /\ d_pc' = "done"
                       /\ d_result' = Some([tag |-> "Panic"])
                       /\ UNCHANGED <<round, attempt>>
                  [] h = "return" ->
                       /\ d_pc' = "done"
                       /\ d_result' = Some([tag |-> "Err", msg |-> Message(o)])
                       /\ UNCHANGED <<round, attempt>>
                  [] h = "break" ->
                       /\ d_pc' = "received"
                       /\ d_result' = None
                       /\ UNCHANGED <<round, attempt>>
                  [] OTHER ->
                       IF LastAttempt(round, attempt)
                       THEN /\ d_pc' = "done"
                            /\ d_result' =
                                 Some([tag |-> "Err",
                                       msg |-> [fmt |-> "DHM WCS failed after rounds",
                                                rounds |-> max_rounds,
                                                attempts |-> quick_retries,
                                                last |-> Unwrap(last_err')]])
                            /\ UNCHANGED <<round, attempt>>
                       ELSE /\ d_pc' = "attempting"
                            /\ d_result' = None
                            /\ attempt' = IF attempt = quick_retries THEN 1
                                          ELSE attempt + 1
                            /\ round' = IF attempt = quick_retries THEN round + 1
                                        ELSE round

\* str::contains
Contains(text, pat) ==
    \E i \in 1..(Len(text) - Len(pat) + 1) : SubSeq(text, i, i + Len(pat) - 1) = pat

SniffLimit == 5

\* content_type.contains("xml") || (bytes.len() > 5 && bytes[0] == b'<')
IsErrorPayload(ct, bytes) ==
    Contains(ct, <<"x", "m", "l">>) \/ (bytes.len > SniffLimit /\ bytes.first = "<")

\* Lines 809-824: the check for an error document, and the bytes given to
\* the TIFF decoder otherwise
DhmCheckPayload ==
    /\ d_pc = "received"
    /\ LET ct == Unwrap(d_received)[1]
           bytes == Unwrap(d_received)[2]
       IN  IF IsErrorPayload(ct, bytes)
           THEN /\ d_pc' = "done"
                /\ d_result' =
                     Some([tag |-> "Err",
                           msg |-> [fmt |-> "DHM WCS returned error",
                                    text |-> [id |-> bytes.id,
                                              len |-> Min(bytes.len, ErrBodyLimit)]]])
           ELSE /\ d_pc' = "decoding"
                /\ d_result' = None
    /\ UNCHANGED <<round, attempt, last_err, d_requests, sleeps, d_outcome, d_received>>

\* What the TIFF decoder may do with the bytes (822-848)
DecoderOutcomes(bytes) ==
    IF ~bytes.is_tiff THEN {"Failed to decode GeoTIFF"}
    ELSE {"ok", "Failed to read TIFF dimensions", "Failed to read TIFF image data",
          "Unsupported TIFF pixel format"}

\* Lines 822-848: decoding
DhmDecode ==
    /\ d_pc = "decoding"
    /\ \E out \in DecoderOutcomes(Unwrap(d_received)[2]) :
         IF out = "ok"
         THEN d_pc' = "decoded" /\ d_result' = None
         ELSE /\ d_pc' = "done"
              /\ d_result' = Some([tag |-> "Err", msg |-> [fmt |-> out]])
    /\ UNCHANGED <<round, attempt, last_err, d_requests, sleeps, d_outcome, d_received>>

----------------------------------------------------------------------------
(* BBR code translation helpers                                            *)

bbr_wall_material_to_colour_Shifted(code) ==
    CASE code = 1 -> Some("#c8c0b8")
      [] code = 2 -> Some("#b0b0b0")
      [] OTHER -> None

bbr_wall_material_to_colour(code) ==
    CASE code = 1 -> Some("#b5451b")
      [] code = 2 -> Some("#c8c0b8")
      [] code = 3 -> Some("#b0b0b0")
      [] code = 4 -> Some("#c8a050")
      [] code = 5 -> Some("#a07040")
      [] code = 6 -> Some("#909090")
      [] code = 7 -> Some("#d8c8a0")
      [] code = 8 -> Some("#808890")
      [] code = 10 -> Some("#d0e8f0")
      [] code = 11 -> Some("#e8e0d0")
      [] code = 12 -> Some("#f0e8d0")
      [] OTHER -> None

\* The map bbr_roof_to_tags returns: a function from tag keys to values
RoofShape(v) == [k \in {"roof:shape"} |-> v]
RoofMaterial(v) == [k \in {"roof:material"} |-> v]
RoofBoth(shape, material) ==
    [k \in {"roof:shape", "roof:material"} |->
        IF k = "roof:shape" THEN shape ELSE material]
NoTags == [k \in {} |-> ""]

bbr_roof_to_tags(code) ==
    CASE code = 1 -> RoofShape("flat")
      [] code = 2 -> RoofShape("flat")
      [] code = 3 -> RoofShape("gabled")
      [] code = 4 -> RoofBoth("gabled", "tile")
      [] code = 5 -> RoofBoth("gabled", "tile")
      [] code = 6 -> RoofBoth("gabled", "metal")
      [] code = 7 -> RoofBoth("hipped", "thatch")
      [] code = 10 -> RoofMaterial("glass")
      [] code = 11 -> RoofShape("flat")
      [] code = 12 -> RoofBoth("hipped", "slate")
      [] code = 20 -> RoofShape("flat")
      [] OTHER -> NoTags

bbr_anvendelse_to_building_type(code) ==
    CASE code \in {110, 120} -> Some("house")
      [] code = 121 -> Some("semidetached_house")
      [] code \in {130, 131, 132, 140} -> Some("apartments")
      [] code \in {150, 160} -> Some("residential")
      [] code \in 185..190 -> Some("residential")
      [] code \in 310..319 -> Some("commercial")
      [] code \in 320..329 -> Some("office")
      [] code \in 330..339 -> Some("hotel")
      [] code \in 340..349 -> Some("commercial")
      [] code \in 350..359 -> Some("retail")
      [] code \in 360..369 -> Some("commercial")
      [] code \in 370..379 -> Some("commercial")
      [] code \in 390..399 -> Some("commercial")
      [] code \in 410..419 -> Some("industrial")
      [] code \in 420..429 -> Some("industrial")
      [] code \in 430..439 -> Some("warehouse")
      [] code \in 440..449 -> Some("industrial")
      [] code \in 510..519 -> Some("school")
      [] code \in 520..529 -> Some("university")
      [] code \in 530..539 -> Some("hospital")
      [] code \in 540..549 -> Some("public")
      [] code \in 550..559 -> Some("school")
      [] code = 585 -> Some("church")
      [] code \in 590..599 -> Some("public")
      [] code \in 610..619 -> Some("public")
      [] code \in 620..629 -> Some("public")
      [] code \in 710..719 -> Some("industrial")
      [] code \in 720..729 -> Some("industrial")
      [] code \in 910..919 -> Some("farm")
      [] code \in 920..929 -> Some("farm_auxiliary")
      [] code = 930 -> Some("shed")
      [] code = 940 -> Some("garage")
      [] code = 950 -> Some("shed")
      [] OTHER -> None

----------------------------------------------------------------------------
(* enrich_with_bbr                                                         *)

\* 0.00027 degree, in units of 1e-5 degree
Threshold == 27

SetMin(S) == CHOOSE m \in S : \A y \in S : m <= y
SetMax(S) == CHOOSE m \in S : \A y \in S : m >= y
Max(a, b) == IF a >= b THEN a ELSE b

\* HashMap::insert
Insert(tags, key, value) ==
    [k \in DOMAIN tags \cup {key} |-> IF k = key THEN value ELSE tags[k]]

\* for (key, value) in roof_tags { way.tags.insert(key, value) }
InsertAll(tags, new) ==
    [k \in DOMAIN tags \cup DOMAIN new |-> IF k \in DOMAIN new THEN new[k] ELSE tags[k]]

\* way.tags.contains_key("building") || way.tags.contains_key("building:part")
HasBuildingTag(tags) == "building" \in DOMAIN tags \/ "building:part" \in DOMAIN tags

\* The element is one the first loop collects vertices from (550-552)
IsBuildingWay(elem) == elem.kind = "way" /\ HasBuildingTag(elem.tags)

Eligible_AnyWay(elem) == elem.kind = "way" /\ elem.nodes # <<>>

\* The element is one the second loop goes on to match (582-593)
Eligible(elem) == IsBuildingWay(elem) /\ elem.nodes # <<>>

\* all_x and all_z, as sets (546-559)
AllX(elems) ==
    UNION { {elems[i].nodes[j].x : j \in 1..Len(elems[i].nodes)} :
              i \in {k \in 1..Len(elems) : IsBuildingWay(elems[k])} }
AllZ(elems) ==
    UNION { {elems[i].nodes[j].z : j \in 1..Len(elems[i].nodes)} :
              i \in {k \in 1..Len(elems) : IsBuildingWay(elems[k])} }

\* global_min_x .. global_max_z and the two ranges (565-571)
GlobalExtent(elems) ==
    [min_x |-> SetMin(AllX(elems)), max_x |-> SetMax(AllX(elems)),
     min_z |-> SetMin(AllZ(elems)), max_z |-> SetMax(AllZ(elems)),
     x_range |-> Max(SetMax(AllX(elems)) - SetMin(AllX(elems)), 1),
     z_range |-> Max(SetMax(AllZ(elems)) - SetMin(AllZ(elems)), 1)]

\* approx_lat and approx_lon of a way (596-609) as fractions:
\* approx_lat = lat_n / dz and approx_lon = lon_n / dx, with dz = 2 * z_range
\* and dx = 2 * x_range (cx and cz are halves of integers)
Approx(way, ext, bb) ==
    LET xs == {way.nodes[j].x : j \in 1..Len(way.nodes)}
        zs == {way.nodes[j].z : j \in 1..Len(way.nodes)}
        cx2 == SetMin(xs) + SetMax(xs)
        cz2 == SetMin(zs) + SetMax(zs)
        dx == 2 * ext.x_range
        dz == 2 * ext.z_range
    IN  [dx |-> dx, dz |-> dz,
         lon_n |-> bb.lon_min * dx + (cx2 - 2 * ext.min_x) * (bb.lon_max - bb.lon_min),
         lat_n |-> bb.lat_max * dz - (cz2 - 2 * ext.min_z) * (bb.lat_max - bb.lat_min)]

\* dist_sq (620-622), times (dx * dz)^2
DistSq(bbr, a) ==
    LET dlat == (bbr.lat * a.dz - a.lat_n) * a.dx
        dlon == (bbr.lon * a.dx - a.lon_n) * a.dz
    IN  dlat * dlat + dlon * dlon

\* threshold_sq (613-614), times (dx * dz)^2
ThresholdSq(a) == Threshold * Threshold * (a.dx * a.dz) * (a.dx * a.dz)

Closer_Last(dist_sq, best_dist_sq, a) == dist_sq < ThresholdSq(a)

\* if dist_sq < best_dist_sq && dist_sq < threshold_sq; best_dist_sq is
\* None while it is still f64::MAX
Closer(dist_sq, best_dist_sq, a) ==
    /\ (IsSome(best_dist_sq) => dist_sq < Unwrap(best_dist_sq))
    /\ dist_sq < ThresholdSq(a)

\* for bbr in &bbr_buildings { ... } from record i on (616-627): best_bbr,
\* as the index of the record
RECURSIVE NearestLoop(_, _, _, _, _)
NearestLoop(bbrs, i, a, best_dist_sq, best_bbr) ==
    IF i > Len(bbrs) THEN best_bbr
    ELSE IF Closer(DistSq(bbrs[i], a), best_dist_sq, a)
         THEN NearestLoop(bbrs, i + 1, a, Some(DistSq(bbrs[i], a)), Some(i))
         ELSE NearestLoop(bbrs, i + 1, a, best_dist_sq, best_bbr)

ApplyLevels_Zero(tags, bbr) ==
    IF IsSome(bbr.antal_etager) /\ Unwrap(bbr.antal_etager) >= 0
    THEN <<Insert(tags, "building:levels", ToString(Unwrap(bbr.antal_etager))), TRUE>>
    ELSE <<tags, FALSE>>

\* building:levels (635-641): the tags, and whether a tag was written
ApplyLevels(tags, bbr) ==
    IF IsSome(bbr.antal_etager) /\ Unwrap(bbr.antal_etager) >= 1
    THEN <<Insert(tags, "building:levels", ToString(Unwrap(bbr.antal_etager))), TRUE>>
    ELSE <<tags, FALSE>>

\* building:colour (644-650)
ApplyColour(tags, bbr) ==
    IF /\ IsSome(bbr.ydervaegs_materiale)
       /\ IsSome(bbr_wall_material_to_colour(Unwrap(bbr.ydervaegs_materiale)))
    THEN <<Insert(tags, "building:colour",
                  Unwrap(bbr_wall_material_to_colour(Unwrap(bbr.ydervaegs_materiale)))),
           TRUE>>
    ELSE <<tags, FALSE>>

ApplyRoof_Always(tags, bbr) ==
    IF IsSome(bbr.tagdaekning)
    THEN <<InsertAll(tags, bbr_roof_to_tags(Unwrap(bbr.tagdaekning))), TRUE>>
    ELSE <<tags, FALSE>>

\* roof tags (653-659)
ApplyRoof(tags, bbr) ==
    IF IsSome(bbr.tagdaekning)
    THEN <<InsertAll(tags, bbr_roof_to_tags(Unwrap(bbr.tagdaekning))),
           DOMAIN bbr_roof_to_tags(Unwrap(bbr.tagdaekning)) # {}>>
    ELSE <<tags, FALSE>>

\* building (662-667)
ApplyType(tags, bbr) ==
    IF /\ IsSome(bbr.anvendelse)
       /\ IsSome(bbr_anvendelse_to_building_type(Unwrap(bbr.anvendelse)))
    THEN <<Insert(tags, "building",
                  Unwrap(bbr_anvendelse_to_building_type(Unwrap(bbr.anvendelse)))),
           TRUE>>
    ELSE <<tags, FALSE>>

\* The four overrides in order (631-671): the tags and did_enrich
ApplyOverrides(tags, bbr) ==
    LET t1 == ApplyLevels(tags, bbr)
        t2 == ApplyColour(t1[1], bbr)
        t3 == ApplyRoof(t2[1], bbr)
        t4 == ApplyType(t3[1], bbr)
    IN  <<t4[1], t1[2] \/ t2[2] \/ t3[2] \/ t4[2]>>

\* What one iteration of the second loop does to an element: the element
\* afterwards, whether it was matched, and did_enrich
ProcessElement(elem, bbrs, ext, bb) ==
    IF ~Eligible(elem) THEN [elem |-> elem, sel |-> None, did_enrich |-> FALSE]
    ELSE LET sel == NearestLoop(bbrs, 1, Approx(elem, ext, bb), None, None)
         IN  IF ~IsSome(sel) THEN [elem |-> elem, sel |-> None, did_enrich |-> FALSE]
             ELSE LET r == ApplyOverrides(elem.tags, bbrs[Unwrap(sel)])
                  IN  [elem |-> [elem EXCEPT !.tags = r[1]],
                       sel |-> sel, did_enrich |-> r[2]]

\* From the call to the head of the second loop (533-579)
EnrichStart ==
    /\ e_pc = "start"
    /\ UNCHANGED <<bbox, fetched, elements, elements0, matched, enriched, best>>
    /\ idx' = 1
    /\ IF fetched.tag = "Err"
       THEN /\ e_pc' = "done"
            /\ e_result' = Some(fetched)
            /\ UNCHANGED <<bbr_buildings, extent>>
       ELSE /\ bbr_buildings' = fetched.buildings
            /\ IF fetched.buildings = <<>> \/ AllX(elements) = {}
               THEN /\ e_pc' = "done"
                    /\ e_result' = Some([tag |-> "Ok"])
                    /\ UNCHANGED extent
               ELSE /\ e_pc' = "loop"
                    /\ e_result' = None
                    /\ extent' = Some(GlobalExtent(elements))

\* One iteration of the second loop (581-673)
EnrichElement ==
    /\ e_pc = "loop"
    /\ idx <= Len(elements)
    /\ LET r == ProcessElement(elements[idx], bbr_buildings, Unwrap(extent), bbox)
       IN  /\ elements' = [elements EXCEPT ![idx] = r.elem]
           /\ matched' = IF IsSome(r.sel) THEN matched + 1 ELSE matched
           /\ enriched' = IF r.did_enrich THEN enriched + 1 ELSE enriched
           /\ best' = Append(best, [eligible |-> Eligible(elements[idx]),
                                    sel |-> r.sel])
    /\ idx' = idx + 1
    /\ UNCHANGED <<e_pc, bbox, fetched, elements0, bbr_buildings, extent, e_result>>

\* The end of the second loop: the counts are printed and Ok returned (675-677)
EnrichFinish ==
    /\ e_pc = "loop"
    /\ idx > Len(elements)
    /\ e_pc' = "done"
    /\ e_result' = Some([tag |-> "Ok", matched |-> matched, enriched |-> enriched])
    /\ UNCHANGED <<bbox, fetched, elements, elements0, bbr_buildings, extent,
                   idx, matched, enriched, best>>

(* The inputs of enrich_with_bbr *)

MaxElems == 2
MaxRecords == 2
MaxXZ == 2

BBoxes == { [lat_min |-> 0, lat_max |-> 54, lon_min |-> 0, lon_max |-> 54] }

Vertex(x, z) == [x |-> x, z |-> z]

\* Vertex lists of the renderer's elements
Footprints ==
    { <<>>,
      <<Vertex(MaxXZ, 0)>>,
      <<Vertex(0, 0), Vertex(MaxXZ, MaxXZ), Vertex(0, MaxXZ)>> }

\* Tag mappings of the renderer's elements
TagSets ==
    { [k \in {"building"} |-> "yes"],
      [k \in {"building:part", "building:levels", "roof:shape", "name"} |->
          CASE k = "building:part" -> "yes"
            [] k = "building:levels" -> "9"
            [] k = "roof:shape" -> "flat"
            [] OTHER -> "n"],
      [k \in {"highway"} |-> "x"] }

\* The renderer's elements: building ways of every footprint, ways of
\* every tag mapping on the largest footprint, and an element that is no way
Elements ==
    {[kind |-> "way", tags |-> [k \in {"building"} |-> "yes"], nodes |-> n] :
        n \in Footprints}
      \cup {[kind |-> "way", tags |-> t,
             nodes |-> <<Vertex(0, 0), Vertex(MaxXZ, MaxXZ), Vertex(0, MaxXZ)>>] :
              t \in TagSets}
      \cup {[kind |-> "node", tags |-> [k \in {"building"} |-> "yes"],
             nodes |-> <<>>]}

ElementLists == UNION { [1..n -> Elements] : n \in 0..MaxElems }

\* Positions of fetched records, <<lat, lon>>
Positions == { <<27, 27>>, <<40, 40>>, <<27, 54>> }

\* antal_etager, ydervaegs_materiale, tagdaekning, anvendelse of records
AttrTable ==
    << <<Some(3), Some(1), Some(5), Some(120)>>,
       <<None, None, None, None>>,
       <<Some(0), Some(9), Some(99), Some(200)>>,
       <<Some(1), None, None, None>>,
       <<None, Some(12), None, None>>,
       <<None, None, Some(10), None>>,
       <<None, None, None, Some(585)>>,
       <<Some(0 - 1), Some(9), Some(1), Some(315)>> >>

BbrBuilding(pos, at) ==
    [lat |-> pos[1], lon |-> pos[2], antal_etager |-> at[1],
     ydervaegs_materiale |-> at[2], tagdaekning |-> at[3], anvendelse |-> at[4]]

\* Record lists: the positions are free, the attributes of the i-th record
\* are row i + shift of AttrTable
RecordListsOfLen(n) ==
    { [i \in 1..n |->
          BbrBuilding(ps[i], AttrTable[((i + shift) % Len(AttrTable)) + 1])] :
        ps \in [1..n -> Positions], shift \in 0..(Len(AttrTable) - 1) }

RecordLists == UNION { RecordListsOfLen(n) : n \in 0..MaxRecords }

\* What fetch_bbr_buildings may return to enrich_with_bbr
FetchResults ==
    {[tag |-> "Err", kind |-> "Status"]}
      \cup {[tag |-> "Ok", buildings |-> l] : l \in RecordLists}

\* The bounding box min (55.670, 12.560) / max (55.680, 12.580) and a fetch
\* of one record at (55.675, 12.570) with 3 floors and wall material 1
ExampleBBox ==
    [lat_min |-> 5567000, lat_max |-> 5568000, lon_min |-> 1256000, lon_max |-> 1258000]

ExampleResult ==
    [tag |-> "Ok",
     buildings |-> << BbrBuilding(<<5567500, 1257000>>, <<Some(3), Some(1), None, None>>) >>]

\* The calls of enrich_with_bbr: a bounding box and what the fetch returns
Scenarios ==
    {[bbox |-> bb, res |-> r] : bb \in BBoxes, r \in FetchResults}
      \cup {[bbox |-> ExampleBBox, res |-> ExampleResult]}

----------------------------------------------------------------------------
(* fetch_dhm_elevation: elevations to vertical coordinates (899-961)       *)
(* Elevations are exact multiples of a quarter metre; the f64 arithmetic   *)
(* on them is modelled by exact rationals.                                 *)

MAX_Y == 319
TERRAIN_HEIGHT_BUFFER == 15

\* Quarter metres in a metre
Quarters == 4

\* The cells of a grid
CellsOf(grid) == {grid[z][x] : z \in 1..Len(grid), x \in 1..Len(grid[1])}

\* min_h and max_h (888-895)
MinH(grid) == SetMin(CellsOf(grid))
MaxH(grid) == SetMax(CellsOf(grid))

\* available_y_range (902)
AvailableYRange(g) == MAX_Y - TERRAIN_HEIGHT_BUFFER - g

\* ideal_scaled_range <= available_y_range (903, 905), for a height range of
\* r quarter metres
Fits(r, sc, avail) == r * sc[1] <= Quarters * sc[2] * avail

ScaledRange_Stretch(r, sc, avail) ==
    IF r = 0 THEN [nan |-> TRUE, num |-> 0, den |-> 1]
    ELSE [nan |-> FALSE, num |-> avail, den |-> 1]

\* scaled_range (905-910) as the fraction num / den. When the range is 0
\* and does not fit, compression is -inf and 0 * -inf is NaN.
ScaledRange(r, sc, avail) ==
    IF Fits(r, sc, avail)
    THEN [nan |-> FALSE, num |-> r * sc[1], den |-> Quarters * sc[2]]
    ELSE IF r = 0 THEN [nan |-> TRUE, num |-> 0, den |-> 1]
    ELSE [nan |-> FALSE, num |-> avail, den |-> 1]

\* f64::round of n / d, d > 0: to the nearest integer, halves away from 0
Round(n, d) ==
    IF n >= 0 THEN (2 * n + d) \div (2 * d)
    ELSE 0 - ((2 * (0 - n) + d) \div (2 * d))

\* i32::clamp, which panics when lo > hi (None)
Clamp(v, lo, hi) ==
    IF lo > hi THEN None
    ELSE Some(IF v < lo THEN lo ELSE IF v > hi THEN hi ELSE v)

\* (ground_level as f64 + relative * scaled_range).round() as i32, where
\* relative is off / r; NaN casts to 0
RoundedY(off, r, sr, g) ==
    IF sr.nan THEN 0
    ELSE Round(g * r * sr.den + off * sr.num, r * sr.den)

\* One cell of mc_heights (925-940)
CellY(h, min_h, r, sr, g) ==
    Clamp(IF r > 0 THEN RoundedY(h - min_h, r, sr, g)
          ELSE IF sr.nan THEN 0 ELSE g,
          g, MAX_Y - TERRAIN_HEIGHT_BUFFER)

SeaLevelY_Flat(min_h, r, sr, g) ==
    IF 2 * min_h < Quarters
    THEN Some(Clamp(IF r > 0 THEN RoundedY(0 - min_h, r, sr, g) ELSE g,
                    g, MAX_Y - TERRAIN_HEIGHT_BUFFER))
    ELSE None

\* sea_level_y (912-922): None, Some(y), or Some(None) for a panic in clamp
SeaLevelY(min_h, r, sr, g) ==
    IF r > 0 /\ 2 * min_h < Quarters
    THEN Some(Clamp(RoundedY(0 - min_h, r, sr, g), g, MAX_Y - TERRAIN_HEIGHT_BUFFER))
    ELSE None

\* Lines 899-961 on the smoothed grid
MapHeights(grid, sc, g) ==
    LET min_h == MinH(grid)
        r == MaxH(grid) - min_h
        sr == ScaledRange(r, sc, AvailableYRange(g))
        sea == SeaLevelY(min_h, r, sr, g)
        ys == [z \in 1..Len(grid) |->
                 [x \in 1..Len(grid[1]) |-> CellY(grid[z][x], min_h, r, sr, g)]]
    IN  IF sea = Some(None) \/ \E z \in 1..Len(grid) : \E x \in 1..Len(grid[1]) :
                                   ys[z][x] = None
        THEN [tag |-> "Panic"]
        ELSE [tag |-> "Ok",
              heights |-> [z \in 1..Len(grid) |->
                             [x \in 1..Len(grid[1]) |-> Unwrap(ys[z][x])]],
              width |-> grid_width,
              height |-> grid_height,
              sea_level_y |-> IF sea = None THEN None ELSE Unwrap(sea)]

\* fetch_dhm_elevation from the smoothed grid to its return
MapGrid ==
    /\ g_pc = "smoothed"
    /\ g_pc' = "done"
    /\ g_result' = Some(MapHeights(height_grid, scale, ground_level))
    /\ UNCHANGED <<tiff, grid_width, grid_height, height_grid, scale, ground_level>>

----------------------------------------------------------------------------
(* fetch_dhm_elevation: resampling the raster to the grid (851-873)        *)
(* The index arithmetic is in f64: gx / grid_width and its product with    *)
(* tiff_width are each rounded to 53 significant bits, to nearest, ties to *)
(* even. Large naturals are sequences of bits, most significant first.     *)

MantissaBits == 53

\* The bits of a natural number (none for 0)
RECURSIVE Bits(_)
Bits(n) == IF n = 0 THEN <<>> ELSE Append(Bits(n \div 2), n % 2)

\* The natural number of a short bit sequence
RECURSIVE BitsVal(_)
BitsVal(b) ==
    IF b = <<>> THEN 0 ELSE 2 * BitsVal(SubSeq(b, 1, Len(b) - 1)) + b[Len(b)]

Zeros(k) == [i \in 1..k |-> 0]

\* The k-bit form of a natural number below 2^k
Padded(n, k) == Zeros(k - Len(Bits(n))) \o Bits(n)

StripZeros(b) ==
    IF \A i \in 1..Len(b) : b[i] = 0 THEN <<>>
    ELSE SubSeq(b, CHOOSE i \in 1..Len(b) : b[i] = 1 /\ \A j \in 1..(i - 1) : b[j] = 0,
                Len(b))

\* Bits handled in one step of a long division or multiplication
ChunkBits == 12

\* Long division of b by the small number w from bit i on, a chunk at a
\* time: quotient bits and remainder
RECURSIVE DivFrom(_, _, _, _, _)
DivFrom(b, w, i, q, rem) ==
    IF i > Len(b) THEN [q |-> StripZeros(q), r |-> rem]
    ELSE DivFrom(b, w, Min(i + ChunkBits, Len(b) + 1),
                 q \o Padded((rem * Pow2(Min(i + ChunkBits, Len(b) + 1) - i)
                                + BitsVal(SubSeq(b, i, Min(i + ChunkBits, Len(b) + 1) - 1)))
                               \div w,
                             Min(i + ChunkBits, Len(b) + 1) - i),
                 (rem * Pow2(Min(i + ChunkBits, Len(b) + 1) - i)
                    + BitsVal(SubSeq(b, i, Min(i + ChunkBits, Len(b) + 1) - 1))) % w)

DivSmall(b, w) == DivFrom(b, w, 1, <<>>, 0)

\* b times the small number t, a chunk at a time from the last bit
\* backwards (i bits are left)
RECURSIVE MulFrom(_, _, _, _, _)
MulFrom(b, t, i, carry, out) ==
    IF i = 0 THEN Bits(carry) \o out
    ELSE MulFrom(b, t, i - Min(ChunkBits, i),
                 (BitsVal(SubSeq(b, i - Min(ChunkBits, i) + 1, i)) * t + carry)
                    \div Pow2(Min(ChunkBits, i)),
                 Padded((BitsVal(SubSeq(b, i - Min(ChunkBits, i) + 1, i)) * t + carry)
                          % Pow2(Min(ChunkBits, i)),
                        Min(ChunkBits, i)) \o out)

MulSmall(b, t) == StripZeros(MulFrom(b, t, Len(b), 0, <<>>))

\* b + 1
Increment(b) ==
    IF \A i \in 1..Len(b) : b[i] = 1 THEN <<1>> \o Zeros(Len(b))
    ELSE [i \in 1..Len(b) |->
            IF \E j \in (i + 1)..Len(b) : b[j] = 0 THEN b[i] ELSE 1 - b[i]]

\* Round to nearest, ties to even: b is the integer part, `half` compares
\* the discarded part with one half (-1 below, 0 equal, 1 above)
RoundEven(b, half) ==
    IF half > 0 \/ (half = 0 /\ b # <<>> /\ b[Len(b)] = 1) THEN Increment(b)
    ELSE b

\* gx as f64 / grid_width as f64 for 1 <= gx: the significand m and the
\* exponent e of the quotient m / 2^e
F64Div(gx, w) ==
    LET e0 == MantissaBits + Len(Bits(w)) - Len(Bits(gx))
        d0 == DivSmall(Bits(gx) \o Zeros(e0), w)
        e == IF Len(d0.q) > MantissaBits THEN e0 - 1 ELSE e0
        d == IF e = e0 THEN d0 ELSE DivSmall(Bits(gx) \o Zeros(e), w)
        half == IF 2 * d.r > w THEN 1 ELSE IF 2 * d.r = w /\ d.r > 0 THEN 0 ELSE 0 - 1
    IN  [m |-> RoundEven(d.q, half), e |-> e]

\* (m / 2^e) * tiff_width as f64, rounded: significand and exponent
F64Mul(x, t) ==
    LET p == MulSmall(x.m, t)
        cut == Len(p) - MantissaBits
    IN  IF cut <= 0 THEN [m |-> p, e |-> x.e]
        ELSE LET kept == SubSeq(p, 1, MantissaBits)
                 rest == SubSeq(p, MantissaBits + 1, Len(p))
                 half == IF rest[1] = 0 THEN 0 - 1
                         ELSE IF \E i \in 2..Len(rest) : rest[i] = 1 THEN 1
                         ELSE 0
             IN  [m |-> RoundEven(kept, half), e |-> x.e - cut]

\* `as usize` of m / 2^e: the integer part
F64ToUsize(x) ==
    IF x.e <= 0 THEN BitsVal(x.m \o Zeros(0 - x.e))
    ELSE IF Len(x.m) <= x.e THEN 0
    ELSE BitsVal(SubSeq(x.m, 1, Len(x.m) - x.e))

\* tx of gx (and tz of gz), lines 858-861
SourceIndex(g, grid_size, tiff_size) ==
    Min(IF g = 0 THEN 0 ELSE F64ToUsize(F64Mul(F64Div(g, grid_size), tiff_size)),
        tiff_size - 1)

\* nodata (853), in quarter metres
NoDataMetres == 0 - 9999
nodata == NoDataMetres * Quarters

\* height_grid[gz][gx] from tx and tz (863-871)
ResampledCell(tx, tz, t) ==
    LET i == tz * t.width + tx
        h == IF i < Len(t.data) THEN t.data[i + 1] ELSE 0
    IN  IF h <= nodata THEN 0 ELSE h

\* The two loops of lines 855-873; tx depends on gx only and tz on gz only
Resample ==
    /\ g_pc = "resample"
    /\ g_pc' = "resampled"
    /\ LET txs == [gx \in 1..grid_width |->
                     SourceIndex(gx - 1, grid_width, Unwrap(tiff).width)]
           tzs == [gz \in 1..grid_height |->
                     SourceIndex(gz - 1, grid_height, Unwrap(tiff).height)]
       IN  height_grid' =
             [gz \in 1..grid_height |->
                [gx \in 1..grid_width |-> ResampledCell(txs[gx], tzs[gz], Unwrap(tiff))]]
    /\ UNCHANGED <<tiff, grid_width, grid_height, scale, ground_level, g_result>>

(* The inputs of the resampling *)

MaxSide == 22
MaxRows == 2

\* Pixel i (0-based) of a decoded raster, in quarter metres: all distinct,
\* or with pixels at and below the nodata value
Pixel(pattern, i) ==
    IF pattern = "ramp" THEN Quarters * (i + 1)
    ELSE CASE i % 3 = 1 -> nodata
           [] i % 3 = 2 -> nodata - Quarters
           [] OTHER -> Quarters * (i + 1)

\* Decoded rasters: raw_heights has width * height values, or one less
Rasters ==
    {[width |-> w, height |-> h,
      data |-> [i \in 1..(w * h - short) |-> Pixel(pattern, i - 1)]] :
        w \in 1..MaxSide, h \in 1..MaxRows,
        pattern \in {"ramp", "holes"}, short \in {0, 1}}

\* Grid widths tried with a raster of width w: the same, smaller and larger
GridWidths(w) == {w, 1, 3, MaxSide - 1, MaxSide}

(* The inputs of the vertical mapping *)

MaxCells == 3

\* Elevations in quarter metres: -1 m, 0 m, 0.25 m, 0.5 m, 0.75 m, 10 m
Elevs == {0 - 4, 0, 1, 2, 3, 40}

GroundLevels == {0 - 2, 0, 300, 304, 305}

Scales == { <<1, 2>>, <<1, 1>>, <<3, 1>> }

GridDims == {d \in (1..MaxCells) \X (1..MaxCells) : d[1] * d[2] <= MaxCells}

\* Smoothed grids of d[1] columns and d[2] rows
SmoothedGrids(d) == [1..d[2] -> [1..d[1] -> Elevs]]

----------------------------------------------------------------------------
(* Specifications                                                          *)

\* The state after the locals of fetch_bbr_buildings are set up (291-293)
FetchStart ==
    /\ f_pc = "loop"
    /\ page = 0
    /\ cursor = None
    /\ all_buildings = <<>>
    /\ f_result = None
    /\ f_warned = FALSE
    /\ f_requests = 0
    /\ f_query = None
    /\ f_resp = None
    /\ f_all_more = TRUE

\* The state at the head of the retry block of fetch_dhm_elevation (733-736)
DhmStart ==
    /\ d_pc = "attempting"
    /\ round = 1
    /\ attempt = 1
    /\ last_err = None
    /\ d_requests = 0
    /\ sleeps = <<>>
    /\ d_outcome = None
    /\ d_received = None
    /\ d_result = None

\* enrich_with_bbr is not running
EnrichIdle ==
    /\ e_pc = "idle"
    /\ bbox = None
    /\ fetched = None
    /\ elements = <<>>
    /\ elements0 = <<>>
    /\ bbr_buildings = <<>>
    /\ extent = None
    /\ idx = 0
    /\ matched = 0
    /\ enriched = 0
    /\ best = <<>>
    /\ e_result = None

\* The later part of fetch_dhm_elevation is not running
GridIdle ==
    /\ g_pc = "idle"
    /\ tiff = None
    /\ grid_width = 0
    /\ grid_height = 0
    /\ height_grid = <<>>
    /\ scale = <<1, 1>>
    /\ ground_level = 0
    /\ g_result = None

FetchInit ==
    \E ds \in DataSets :
        dataset = ds /\ FetchStart /\ DhmStart /\ EnrichIdle /\ GridIdle

FetchNext == FetchPage /\ UNCHANGED <<d_vars, e_vars, g_vars>>

FetchSpec == FetchInit /\ [][FetchNext]_vars

DhmInit ==
    \E ds \in {"plain"} :
        dataset = ds /\ FetchStart /\ DhmStart /\ EnrichIdle /\ GridIdle

DhmNext ==
    \/ DhmAttempt /\ UNCHANGED <<f_vars, e_vars, g_vars>>
    \/ DhmCheckPayload /\ UNCHANGED <<f_vars, e_vars, g_vars>>
    \/ DhmDecode /\ UNCHANGED <<f_vars, e_vars, g_vars>>

DhmSpec == DhmInit /\ [][DhmNext]_vars

\* enrich_with_bbr is called with some elements and bounding box, and its
\* call of fetch_bbr_buildings returns some result
EnrichInit ==
    \E elems \in ElementLists, sc \in Scenarios :
        /\ dataset = "plain" /\ FetchStart /\ DhmStart /\ GridIdle
        /\ e_pc = "start"
        /\ bbox = sc.bbox
        /\ fetched = sc.res
        /\ elements = elems
        /\ elements0 = elems
        /\ bbr_buildings = <<>>
        /\ extent = None
        /\ idx = 0
        /\ matched = 0
        /\ enriched = 0
        /\ best = <<>>
        /\ e_result = None

EnrichNext ==
    \/ EnrichStart /\ UNCHANGED <<f_vars, d_vars, g_vars>>
    \/ EnrichElement /\ UNCHANGED <<f_vars, d_vars, g_vars>>
    \/ EnrichFinish /\ UNCHANGED <<f_vars, d_vars, g_vars>>

EnrichSpec == EnrichInit /\ [][EnrichNext]_vars

\* fetch_dhm_elevation has decoded the raster (line 845)
ResampleInit ==
    \E t \in Rasters, gh \in 1..MaxRows :
      \E gw \in GridWidths(t.width) :
        /\ dataset = "plain" /\ FetchStart /\ DhmStart /\ EnrichIdle
        /\ g_pc = "resample"
        /\ tiff = Some(t)
        /\ grid_width = gw
        /\ grid_height = gh
        /\ height_grid = <<>>
        /\ scale = <<1, 1>>
        /\ ground_level = 0
        /\ g_result = None

ResampleNext == Resample /\ UNCHANGED <<f_vars, d_vars, e_vars>>

ResampleSpec == ResampleInit /\ [][ResampleNext]_vars

\* fetch_dhm_elevation has smoothed the resampled grid (line 886)
VerticalInit ==
    \E d \in GridDims, sc \in Scales, g \in GroundLevels :
      \E grid \in SmoothedGrids(d) :
        /\ dataset = "plain" /\ FetchStart /\ DhmStart /\ EnrichIdle
        /\ g_pc = "smoothed"
        /\ tiff = None
        /\ grid_width = d[1]
        /\ grid_height = d[2]
        /\ height_grid = grid
        /\ scale = sc
        /\ ground_level = g
        /\ g_result = None

VerticalNext == MapGrid /\ UNCHANGED <<f_vars, d_vars, e_vars>>

VerticalSpec == VerticalInit /\ [][VerticalNext]_vars

----------------------------------------------------------------------------
(* Claims about fetch_bbr_buildings (FetchSpec)                            *)

\* The records of pages 1..n of a data set, in server order
RECURSIVE RecordsOfPages(_, _)
RecordsOfPages(ds, n) ==
    IF n = 0 THEN <<>>
    ELSE RecordsOfPages(ds, n - 1) \o PushBuildings(<<>>, ServerNodes(ds, n))

\* C1: while the server answers every page with success, hasNextPage = true
\* and a cursor, the fetch sends exactly 100 requests and then stops with the
\* pagination-limit warning and Ok of the records of all 100 pages.
C1_PaginationTermination ==
    /\ f_requests <= 100
    /\ (f_all_more /\ f_pc = "loop" => f_requests < 100)
    /\ (f_all_more /\ f_pc = "done"
          => /\ f_requests = 100
             /\ f_warned
             /\ f_result = Some([tag |-> "Ok",
                                 buildings |-> RecordsOfPages(dataset, 100)]))
    /\ (f_warned => f_all_more /\ f_requests = 100)

C1_Witness ==
    /\ f_pc = "done" /\ f_all_more /\ f_warned /\ f_requests = 100
    /\ Unwrap(f_result).tag = "Ok"
    /\ Len(Unwrap(f_result).buildings) = 100

\* The latest answer was deserialised into a page (status 2xx, JSON of the
\* declared types, no errors member, data.BBR_Bygning present)
PageParsed ==
    /\ IsSome(f_resp)
    /\ Unwrap(f_resp).sent
    /\ Unwrap(f_resp).status \in 200..299
    /\ JsonOk(Unwrap(f_resp).body)
    /\ Unwrap(f_resp).body.errors = None
    /\ IsSome(Unwrap(f_resp).body.data)
    /\ IsSome(Unwrap(Unwrap(f_resp).body.data).bbr_bygning)

LatestPageInfo == Unwrap(Unwrap(Unwrap(f_resp).body.data).bbr_bygning).page_info

C5_AfterPage ==
    PageParsed =>
      /\ (f_pc = "loop") <=> (/\ LatestPageInfo.has_next_page
                              /\ IsSome(LatestPageInfo.end_cursor)
                              /\ f_requests < 100)
      /\ (f_pc = "loop" => cursor = LatestPageInfo.end_cursor)
      /\ (LatestPageInfo.has_next_page /\ ~IsSome(LatestPageInfo.end_cursor)
            => /\ f_pc = "done"
               /\ ~f_warned
               /\ f_result = Some([tag |-> "Ok", buildings |-> all_buildings])
               /\ all_buildings = RecordsOfPages(dataset, f_requests))

C5_NextRequest ==
    f_requests' = f_requests + 1
      => Unwrap(f_query').after =
            IF f_requests = 0 THEN None ELSE LatestPageInfo.end_cursor

\* C5: after a parsed page a further page is requested iff the page had
\* hasNextPage = true and an endCursor (and fewer than 100 pages were
\* fetched); the next request carries exactly that cursor and the first
\* request none; hasNextPage = true without a cursor ends the fetch with Ok
\* and the records gathered so far.
C5_PaginationContinuation == [](C5_AfterPage) /\ [][C5_NextRequest]_vars

C5_Witness ==
    /\ PageParsed /\ f_pc = "done" /\ f_requests >= 3
    /\ LatestPageInfo.has_next_page /\ ~IsSome(LatestPageInfo.end_cursor)
    /\ Unwrap(f_query).after = Some("c2")
    /\ Unwrap(f_result).tag = "Ok"
    /\ Len(Unwrap(f_result).buildings) >= 3

\* C6: on any page, a non-success status, an errors list or a missing data
\* payload ends the fetch at once with an error of its own kind; nothing is
\* sent afterwards and the records of earlier pages are not returned.
C6_FailurePolicy ==
    /\ (IsSome(f_resp) /\ Unwrap(f_resp).sent
          => LET r == Unwrap(f_resp)
                 err(k) == /\ f_pc = "done"
                           /\ f_result = Some([tag |-> "Err", kind |-> k])
                           /\ f_requests = page
             IN  /\ (r.status \notin 200..299 => err("Status"))
                 /\ (r.status \in 200..299 /\ JsonOk(r.body) /\ IsSome(r.body.errors)
                       => err("GraphQlErrors"))
                 /\ ((/\ r.status \in 200..299 /\ JsonOk(r.body)
                      /\ r.body.errors = None
                      /\ (\/ r.body.data = None
                          \/ Unwrap(r.body.data).bbr_bygning = None))
                       => err("NoData")))
    /\ (f_pc = "loop" => f_result = None)

C6_Witness ==
    /\ f_pc = "done" /\ page >= 2 /\ Len(all_buildings) >= 2
    /\ f_result = Some([tag |-> "Err", kind |-> "NoData"])

\* The latest answer is a success whose body is a document with a data
\* payload and no errors member
PageDelivered ==
    /\ IsSome(f_resp)
    /\ Unwrap(f_resp).sent
    /\ Unwrap(f_resp).status \in 200..299
    /\ Unwrap(f_resp).body.json
    /\ Unwrap(f_resp).body.errors = None
    /\ IsSome(Unwrap(f_resp).body.data)
    /\ IsSome(Unwrap(Unwrap(f_resp).body.data).bbr_bygning)

LatestNodes == Unwrap(Unwrap(Unwrap(f_resp).body.data).bbr_bygning).nodes

\* The integer an attribute value stands for, None when it stands for none
IntegerOf(v) ==
    CASE v.t = "num" -> Some(v.n)
      [] v.t = "str" -> ParseI32(v.s)
      [] OTHER -> None

\* The location of a node, None when absent or malformed
LocationOf(node) ==
    IF node.koordinat.t = "obj" /\ node.koordinat.wkt.t = "str"
    THEN parse_point_coordinate(node.koordinat.wkt.s)
    ELSE None

HasLocation(node) == IsSome(LocationOf(node))

\* The record a node with a location is emitted as
RecordOf(node) ==
    [lat |-> Unwrap(LocationOf(node))[1],
     lon |-> Unwrap(LocationOf(node))[2],
     antal_etager |-> IntegerOf(node.antal_etager),
     ydervaegs_materiale |-> IntegerOf(node.ydervaegs_materiale),
     tagdaekning |-> IntegerOf(node.tagdaekning),
     anvendelse |-> IntegerOf(node.anvendelse)]

\* The records the nodes of the latest page are emitted as
LatestRecords ==
    LET located == SelectSeq(LatestNodes, HasLocation)
    IN  [i \in 1..Len(located) |-> RecordOf(located[i])]

\* The fetch has not failed, and the latest page's records are the last
\* records gathered
LatestPageKept ==
    /\ (IsSome(f_result) => Unwrap(f_result).tag = "Ok")
    /\ Len(all_buildings) >= Len(LatestRecords)
    /\ SubSeq(all_buildings, Len(all_buildings) - Len(LatestRecords) + 1,
              Len(all_buildings)) = LatestRecords

\* C16: an attribute value (floor count, wall material, roof material, use)
\* that stands for no integer makes only that field of that record unknown:
\* the record is emitted with its other fields, the other records of the
\* page are kept, and the fetch does not fail.
C16_NumericDegradation == PageDelivered => LatestPageKept

\* The location of a node is a string of the form 'POINT (e n)'
WellFormed(node) ==
    /\ node.koordinat.t = "obj"
    /\ node.koordinat.wkt.t = "str"
    /\ \E p \in 1..3 :
         node.koordinat.wkt.s = PointWkt(SamplePoint(p)[1], SamplePoint(p)[2])

\* The records of the nodes with a well-formed location of pages 1..n, in
\* server order
RECURSIVE WellFormedRecords(_, _)
WellFormedRecords(ds, n) ==
    IF n = 0 THEN <<>>
    ELSE LET good == SelectSeq(ServerNodes(ds, n), WellFormed)
         IN  WellFormedRecords(ds, n - 1) \o [i \in 1..Len(good) |-> RecordOf(good[i])]

----------------------------------------------------------------------------
(* Claims about the retry block of fetch_dhm_elevation (DhmSpec)           *)

\* The attempt ended in a transport failure, a 5xx status or HTTP 429
Transient(o) ==
    \/ o.kind \in {"send_err", "bytes_err"}
    \/ o.kind = "status" /\ (o.status \in 500..599 \/ o.status = 429)

\* The message names the failure an outcome is
Describes(msg, o) ==
    CASE o.kind = "send_err" -> msg.fmt = "Request failed" /\ msg.e = o.e
      [] o.kind = "bytes_err" ->
            msg.fmt = "Failed to read response body" /\ msg.e = o.e
      [] o.kind = "status" ->
            /\ msg.fmt = "DHM WCS returned status"
            /\ msg.status = o.status
            /\ msg.body.id = o.body.id
      [] OTHER -> FALSE

\* C2: at most 15 requests; none after the first response that was read;
\* and when all 15 attempts fail transiently the call returns an error that
\* carries the message of the 15th failure.
C2_RetryBound ==
    /\ d_requests <= 15
    /\ (d_pc = "received" => ~ENABLED DhmAttempt)
    /\ (d_requests = 15 /\ Transient(Unwrap(d_outcome))
          => /\ d_pc = "done"
             /\ Unwrap(d_result).tag = "Err"
             /\ Unwrap(d_result).msg.fmt = "DHM WCS failed after rounds"
             /\ Describes(Unwrap(d_result).msg.last, Unwrap(d_outcome)))

\* C3: an attempt is followed by another attempt exactly when it ended in a
\* transport failure, a 5xx status or HTTP 429; any other non-success status
\* makes the call return an error at once.
C3_RetryClassification ==
    IsSome(d_outcome) =>
      LET o == Unwrap(d_outcome)
      IN  /\ (d_requests < 15 => ((d_pc = "attempting") <=> Transient(o)))
          /\ (o.kind = "status" /\ ~Transient(o)
                => d_pc = "done" /\ Unwrap(d_result).tag = "Err")

\* The waits between the 15 requests of an exhausted run
FullSchedule == <<2, 4, 60, 2, 4, 60, 2, 4, 60, 2, 4, 60, 2, 4>>

\* C4: no wait before the first request; 2 s and 4 s before the 2nd and 3rd
\* attempt of a round; 60 s between rounds; an exhausted run has waited 60 s
\* exactly 4 times and does not wait after its last attempt.
C4_RetrySchedule ==
    /\ sleeps = SubSeq(FullSchedule, 1, d_requests - 1)
    /\ (d_pc = "attempting" /\ attempt > 1
          => sleeps \o <<Pow2(attempt - 1)>>
               = SubSeq(FullSchedule, 1, d_requests))
    /\ (IsSome(d_result) /\ d_requests = 15
          => /\ Cardinality({i \in 1..Len(sleeps) : sleeps[i] = 60}) = 4
             /\ sleeps[Len(sleeps)] = 4)

C4_Witness ==
    /\ d_pc = "done" /\ d_requests = 15 /\ Len(sleeps) = 14
    /\ Unwrap(d_result).tag = "Err"
    /\ Unwrap(d_result).msg.fmt = "DHM WCS failed after rounds"

\* The response read has an XML content type or a body that begins with '<'
Disguised ==
    /\ IsSome(d_received)
    /\ \/ Contains(Unwrap(d_received)[1], <<"x", "m", "l">>)
       \/ Unwrap(d_received)[2].len >= 1 /\ Unwrap(d_received)[2].first = "<"

\* C15: a response with a success status whose content type indicates XML
\* or whose body begins with '<', whatever its length, makes the call fail
\* with the text of the body; the body is not given to the raster decoder
\* and no further request is sent.
C15_DisguisedError ==
    (Disguised /\ d_pc # "received")
      => /\ d_pc = "done"
         /\ Unwrap(d_result).tag = "Err"
         /\ Unwrap(d_result).msg.fmt = "DHM WCS returned error"
         /\ Unwrap(d_result).msg.text.id = Unwrap(d_received)[2].id
         /\ ~ENABLED DhmAttempt

----------------------------------------------------------------------------
(* Claims about enrich_with_bbr (EnrichSpec)                               *)

\* The elements the second loop has visited
Visited == 1..Len(best)

\* An eligible entity: a way with a building classification tag and vertices
IsEligible(e) ==
    /\ e.kind = "way"
    /\ ("building" \in DOMAIN e.tags \/ "building:part" \in DOMAIN e.tags)
    /\ Len(e.nodes) >= 1

\* The approximate centroid of entity i as passed in, within the extent of
\* the building vertices
CentroidOf(i) == Approx(elements0[i], Unwrap(extent), bbox)

\* Squared distance of fetched record j from the centroid of entity i, and
\* the squared threshold (both times the same factor)
Dist(i, j) == DistSq(fetched.buildings[j], CentroidOf(i))
Limit(i) == ThresholdSq(CentroidOf(i))
Records == 1..Len(fetched.buildings)

\* Record j lies exactly at the approximate centroid of entity i
AtCentroid(i, j) ==
    /\ fetched.buildings[j].lat * CentroidOf(i).dz = CentroidOf(i).lat_n
    /\ fetched.buildings[j].lon * CentroidOf(i).dx = CentroidOf(i).lon_n

\* C7: the record selected for an eligible entity is at minimum squared
\* distance among all fetched records and within the threshold; a record
\* exactly at the centroid is always matched; when every record is farther
\* than the threshold nothing is matched.
C7_MatchingRule ==
    \A i \in Visited :
      IsEligible(elements0[i]) =>
        /\ (IsSome(best[i].sel)
              => /\ \A j \in Records : Dist(i, Unwrap(best[i].sel)) <= Dist(i, j)
                 /\ Dist(i, Unwrap(best[i].sel)) < Limit(i))
        /\ ((\E j \in Records : AtCentroid(i, j))
              => IsSome(best[i].sel) /\ AtCentroid(i, Unwrap(best[i].sel)))
        /\ ((\A j \in Records : Dist(i, j) > Limit(i)) => best[i].sel = None)

C7_Witness ==
    \E i \in Visited :
      /\ IsEligible(elements0[i])
      /\ best[i].sel = Some(2)
      /\ Dist(i, 2) < Dist(i, 1)
      /\ Dist(i, 1) < Limit(i)

\* Tag `key` of entity i is as it was when the entity was passed in
KeyKept(i, key) ==
    /\ key \in DOMAIN elements[i].tags <=> key \in DOMAIN elements0[i].tags
    /\ key \in DOMAIN elements0[i].tags
         => elements[i].tags[key] = elements0[i].tags[key]

\* Tag `key` of entity i is `value` if `cond`, and as it was otherwise
KeySetIff(i, key, cond, value) ==
    IF cond THEN key \in DOMAIN elements[i].tags /\ elements[i].tags[key] = value
    ELSE KeyKept(i, key)

OverrideKeys ==
    {"building:levels", "building:colour", "roof:shape", "roof:material", "building"}

C9_ReconcilerFrame ==
    /\ Len(elements) = Len(elements0)
    /\ \A i \in 1..Len(elements0) :
         /\ elements[i].nodes = elements0[i].nodes
         /\ elements[i].kind = elements0[i].kind
         /\ elements[i].tags # elements0[i].tags
              => /\ IsEligible(elements0[i])
                 /\ fetched.tag = "Ok"
                 /\ fetched.buildings # <<>>
                 /\ IsSome(extent)
                 /\ \E j \in Records : Dist(i, j) < Limit(i)
    /\ ((\A i \in 1..Len(elements0) :
            IsEligible(elements0[i]) => elements0[i].nodes = <<>>)
          => elements = elements0)

C9_Witness ==
    /\ e_pc = "done"
    /\ fetched.tag = "Ok"
    /\ IsSome(extent)
    /\ \E i, k \in 1..Len(elements0) :
         /\ IsEligible(elements0[i])
         /\ \A j \in Records : Dist(i, j) >= Limit(i)
         /\ elements[i] = elements0[i]
         /\ elements[k].tags # elements0[k].tags

\* The record matched to entity i writes at least one tag
Contributes(r) ==
    \/ IsSome(r.antal_etager) /\ Unwrap(r.antal_etager) >= 1
    \/ IsSome(r.ydervaegs_materiale)
         /\ IsSome(bbr_wall_material_to_colour(Unwrap(r.ydervaegs_materiale)))
    \/ IsSome(r.tagdaekning) /\ DOMAIN bbr_roof_to_tags(Unwrap(r.tagdaekning)) # {}
    \/ IsSome(r.anvendelse)
         /\ IsSome(bbr_anvendelse_to_building_type(Unwrap(r.anvendelse)))

\* The visited eligible entities with a record within the threshold
MatchedSet ==
    {i \in Visited : /\ IsEligible(elements0[i])
                     /\ \E j \in Records : Dist(i, j) < Limit(i)}

\* C10: matched counts the eligible entities with a record within the
\* threshold, enriched those of them that had a tag written, so that
\* enriched <= matched <= number of eligible entities throughout the pass;
\* the counts reported at the end are these.
C10_EnrichmentCounts ==
    /\ (e_pc \in {"loop", "done"} /\ IsSome(extent)
          => /\ matched = Cardinality(MatchedSet)
             /\ enriched =
                  Cardinality({i \in MatchedSet :
                                 Contributes(fetched.buildings[Unwrap(best[i].sel)])}))
    /\ enriched <= matched
    /\ matched <= Cardinality({i \in 1..Len(elements0) : IsEligible(elements0[i])})
    /\ (e_pc = "done" /\ IsSome(extent)
          => /\ Len(best) = Len(elements0)
             /\ e_result = Some([tag |-> "Ok", matched |-> matched,
                                 enriched |-> enriched]))

C10_Witness ==
    /\ e_pc = "done" /\ matched = 2 /\ enriched = 1
    /\ \E i \in MatchedSet :
         ~Contributes(fetched.buildings[Unwrap(best[i].sel)])

\* C11: with bounding box min (55.670, 12.560) / max (55.680, 12.580), one
\* fetched record at (55.675, 12.570) with floor count 3 and wall material
\* 1, and one building-tagged entity whose centroid normalizes to that
\* point, the pass ends with building:levels = 3 and building:colour =
\* #b5451b on the entity and with matched = 1 and enriched = 1.
C11_EndToEnd ==
    (/\ e_pc = "done"
     /\ bbox = ExampleBBox
     /\ fetched = ExampleResult
     /\ Len(elements0) = 1
     /\ IsEligible(elements0[1])
     /\ AtCentroid(1, 1))
      => /\ Len(elements) = 1
         /\ "building:levels" \in DOMAIN elements[1].tags
         /\ elements[1].tags["building:levels"] = "3"
         /\ "building:colour" \in DOMAIN elements[1].tags
         /\ elements[1].tags["building:colour"] = "#b5451b"
         /\ e_result = Some([tag |-> "Ok", matched |-> 1, enriched |-> 1])

C11_Witness ==
    /\ e_pc = "done"
    /\ bbox = ExampleBBox
    /\ fetched = ExampleResult
    /\ Len(elements0) = 1
    /\ IsEligible(elements0[1])
    /\ AtCentroid(1, 1)
    /\ elements0[1].tags = [k \in {"building"} |-> "yes"]
    /\ matched = 1

----------------------------------------------------------------------------
(* Claims about the vertical mapping of fetch_dhm_elevation (VerticalSpec) *)

\* fetch_dhm_elevation has returned a grid
Returned == g_pc = "done" /\ Unwrap(g_result).tag = "Ok"

\* Largest and smallest vertical coordinate of the returned grid
OutMax == SetMax(CellsOf(Unwrap(g_result).heights))
OutMin == SetMin(CellsOf(Unwrap(g_result).heights))

\* The smoothed elevation range R in quarter metres, and the budget B
SmoothedRange == MaxH(height_grid) - MinH(height_grid)
Budget == 319 - 15 - ground_level

\* R * S > B
ExceedsBudget == SmoothedRange * scale[1] > 4 * scale[2] * Budget

\* C12: in a returned grid, when the smoothed range R times the scale S
\* exceeds the budget B = 319 - 15 - baseLevel, the largest minus the
\* smallest vertical coordinate is B; when R * S <= B it is R * S to within
\* rounding (half a unit).
C12_VerticalCompression ==
    Returned =>
      IF ExceedsBudget THEN OutMax - OutMin = Budget
      ELSE LET err == 4 * scale[2] * (OutMax - OutMin) - SmoothedRange * scale[1]
           IN  2 * err <= 4 * scale[2] /\ 2 * (0 - err) <= 4 * scale[2]

C12_Witness ==
    /\ Returned
    /\ ExceedsBudget
    /\ Budget = 4
    /\ SmoothedRange = 44
    /\ OutMax - OutMin = 4

\* sea_level_row of the returned grid
SeaRow == Unwrap(g_result).sea_level_y

\* The vertical coordinate the mapping of the cells assigns to elevation h
CoordinateOf(h) ==
    CellY(h, MinH(height_grid), SmoothedRange,
          ScaledRange(SmoothedRange, scale, Budget), ground_level)

InVerticalRange ==
    /\ \A z \in 1..grid_height : \A x \in 1..grid_width :
          LET y == Unwrap(g_result).heights[z][x]
          IN  /\ ground_level <= y /\ y <= 319 - 15
              /\ height_grid[z][x] = MinH(height_grid) => y = ground_level
    /\ IsSome(SeaRow) => ground_level <= Unwrap(SeaRow) /\ Unwrap(SeaRow) <= 319 - 15

\* C19: for every base level, scale and smoothed grid the mapping completes
\* without aborting, base levels above 319 - 15 included; every cell of the
\* grid it returns, and sea_level_row when present, lies in
\* [baseLevel, 319 - 15], and the cells at the smoothed minimum elevation
\* map to exactly baseLevel.
C19_VerticalRange ==
    g_pc = "done" => Unwrap(g_result).tag = "Ok" /\ InVerticalRange

----------------------------------------------------------------------------
(* Claims about the resampling of fetch_dhm_elevation (ResampleSpec)       *)

\* Source pixel (x, z), 0-based, with nodata replaced by 0
SourcePixel(x, z) ==
    LET h == Unwrap(tiff).data[z * Unwrap(tiff).width + x + 1]
    IN  IF h <= (0 - 9999) * 4 THEN 0 ELSE h

\* C14: when the grid has the width and height of the decoded raster every
\* resampled cell (gx, gz) equals source pixel (gx, gz), pixels at or below
\* -9999 becoming 0; and for any sizes every source index computed lies in
\* [0, sourceSize - 1].
C14_ResamplingIdentity ==
    g_pc = "resampled" =>
      /\ (grid_width = Unwrap(tiff).width /\ grid_height = Unwrap(tiff).height)
            => \A gz \in 0..(grid_height - 1) : \A gx \in 0..(grid_width - 1) :
                 gz * grid_width + gx < Len(Unwrap(tiff).data)
                   => height_grid[gz + 1][gx + 1] = SourcePixel(gx, gz)
      /\ \A gx \in 0..(grid_width - 1) :
            SourceIndex(gx, grid_width, Unwrap(tiff).width)
              \in 0..(Unwrap(tiff).width - 1)
      /\ \A gz \in 0..(grid_height - 1) :
            SourceIndex(gz, grid_height, Unwrap(tiff).height)
              \in 0..(Unwrap(tiff).height - 1)

=============================================================================
